---- MODULE Spec2Model ----
(***************************************************************************)
(* CogniPath backend (main.py): the job registry JOBS, the /process,       *)
(* /hub/{job_id} and /audio/{filename} handlers, and the process_job       *)
(* coroutine with its three generate_with_gemini tasks, run by one         *)
(* single-threaded asyncio event loop.                                     *)
(*                                                                         *)
(* A step of the model is what the event-loop thread does between two      *)
(* points where it can hand over control.  model.generate_content and      *)
(* gTTS.save are synchronous calls made on the event-loop thread: while    *)
(* one of them has been entered and has not returned, the thread is inside *)
(* it and no handler or task runs (LoopBusy).                              *)
(***************************************************************************)
EXTENDS Integers, Sequences, FiniteSets, TLC

VARIABLES
    JOBS,     \* the registry: job id -> [status, result]
    issued,   \* history: the job ids /process has returned
    pc,       \* per job id, the position of its process_job task
    gen,      \* per job id and call, the generate_with_gemini task
    files,    \* the files under GENERATED_DIR: path -> bytes
    writes,   \* history: per job id, how often "result" was assigned
    resp      \* the HTTP response produced by the step just taken

vars == <<JOBS, issued, pc, gen, files, writes, resp>>

---------------------------------------------------------------------------
(* Bounds *)

MaxJobs == 2          \* job ids uuid4 can still hand out
MaxContentLen == 2    \* length of the submitted form field
MaxLiveJobs == 1      \* jobs submitted in the runs checked for liveness
MaxTextLen == 4       \* tokens in a text of the generative service

JobIds == 1 .. MaxJobs
AnyIds == 0 .. MaxJobs                    \* 0 is an id uuid4 never returns
Chars == {" ", "a"}
Contents == UNION {[1 .. n -> Chars] : n \in 0 .. MaxContentLen}

Calls == {"summary", "graph", "quiz"}

\* the order in which process_job creates the three tasks
CallOrder == <<"summary", "graph", "quiz">>

\* the calls whose task was created before the task of call k
CreatedBefore(k) ==
    {CallOrder[i] : i \in {n \in 1 .. Len(CallOrder) :
                              \E m \in n + 1 .. Len(CallOrder) :
                                  CallOrder[m] = k}}

---------------------------------------------------------------------------
(* Python values *)

None == [py |-> "None"]

\* d[k] = v on a dict: inserts the key or overwrites its value
DictSet(d, k, v) == [x \in DOMAIN d \cup {k} |-> IF x = k THEN v ELSE d[x]]

\* the truth value of d.get(k) for a dict whose values are sequences:
\* false for a missing key (None) and for an empty sequence
\* a JSON null (Python None) as the value of a member, written as a value
\* that can be compared with the sequences
JsonNull == <<None>>

\* the values of this model that Python takes as false
Falsy == {<<>>, JsonNull}

Truthy(d, k) == k \in DOMAIN d /\ d[k] \notin Falsy

IsSpace(c) == c = " "

RECURSIVE lstrip(_)
lstrip(s) == IF s # <<>> /\ IsSpace(Head(s)) THEN lstrip(Tail(s)) ELSE s

RECURSIVE rstrip(_)
rstrip(s) ==
    IF s # <<>> /\ IsSpace(s[Len(s)])
    THEN rstrip(SubSeq(s, 1, Len(s) - 1))
    ELSE s

\* str.strip()
strip(s) == rstrip(lstrip(s))

---------------------------------------------------------------------------
(* Texts: sequences of tokens.  "{" and "}" are the brace characters, "w"  *)
(* is a run of prose, and a member token is one "key": value pair of a     *)
(* JSON object.                                                            *)

MemberKey ==
    [t \in {"nodes:[n]", "nodes:[]", "edges:[e]", "mcq:[q]", "mcq:[]",
            "mcq:null", "flashcards:[f]"} |->
        CASE t \in {"nodes:[n]", "nodes:[]"} -> "nodes"
          [] t = "edges:[e]" -> "edges"
          [] t \in {"mcq:[q]", "mcq:[]", "mcq:null"} -> "mcq"
          [] OTHER -> "flashcards"]

Members == DOMAIN MemberKey

MemberValue(t) ==
    CASE t = "nodes:[n]" -> <<[id |-> "n1", label |-> "concept1"]>>
      [] t = "edges:[e]" -> <<[from |-> "n1", to |-> "n2"]>>
      [] t = "mcq:[q]" -> <<[question |-> "q1", answer |-> "A"]>>
      [] t = "flashcards:[f]" -> <<[front |-> "f1", back |-> "b1"]>>
      [] t = "mcq:null" -> JsonNull
      [] OTHER -> <<>>

\* json.loads of a span "{" members "}": the object, a later key winning;
\* anything else in the span is a decode error
JsonValid(span) ==
    /\ Len(span) >= 2
    /\ span[1] = "{"
    /\ span[Len(span)] = "}"
    /\ \A i \in 2 .. Len(span) - 1 : span[i] \in Members

JsonLoads(span) ==
    LET keys == {MemberKey[span[i]] : i \in 2 .. Len(span) - 1}
        last(k) == CHOOSE i \in 2 .. Len(span) - 1 :
                       /\ MemberKey[span[i]] = k
                       /\ \A m \in i + 1 .. Len(span) - 1 :
                              MemberKey[span[m]] # k
    IN  [k \in keys |-> MemberValue(span[last(k)])]

\* re.search(r"{.*}", text, re.DOTALL): the span from the first "{" to the
\* last "}" behind it; <<>> when there is no match
BraceSpan(text) ==
    LET opens == {i \in 1 .. Len(text) : text[i] = "{"}
        closes == {i \in 1 .. Len(text) : text[i] = "}"}
    IN  IF opens = {} \/ closes = {}
        THEN <<>>
        ELSE LET first == CHOOSE i \in opens : \A m \in opens : i <= m
                 last == CHOOSE i \in closes : \A m \in closes : m <= i
             IN  IF first < last THEN SubSeq(text, first, last) ELSE <<>>

EmptyDict == [k \in {} |-> None]

extract_json(text) ==
    LET match == BraceSpan(text)
    IN  IF match # <<>> /\ JsonValid(match) THEN JsonLoads(match)
        ELSE EmptyDict

---------------------------------------------------------------------------
(* What the external services can answer *)

Sentinel == <<"Error generating content">>

\* response.text of the generative service, for any prompt
ServiceTexts ==
    { <<"w", "{", "nodes:[n]", "mcq:[q]", "}">> }

\* str(e) of an exception raised while synthesising or saving the audio
ErrorMessages == {"", "Failed to connect"}

GENERATED_DIR == "generated"

\* os.path.join(a, b)
PathJoin(a, b) == <<a, "/", b>>

\* str.split("/") of a path, last component
RECURSIVE SplitLast(_)
SplitLast(p) ==
    IF \E i \in 1 .. Len(p) : p[i] = "/"
    THEN SplitLast(Tail(p))
    ELSE IF p = <<>> THEN "" ELSE p[1]

\* str(job_id), the file stem process_job passes to save_tts_mp3
IdStr(job_id) == ToString(job_id)

\* the bytes gTTS writes for a text
TtsBytes(text) == <<"mp3">> \o text

\* save_tts_mp3(text, filename) when gTTS succeeds: the path it returns and
\* the files it leaves behind
save_tts_mp3(fs, text, filename) ==
    LET path == PathJoin(GENERATED_DIR, filename \o ".mp3")
    IN  [path |-> path, files |-> DictSet(fs, path, TtsBytes(text))]

---------------------------------------------------------------------------
(* State *)

NoTask == [st |-> "none", text |-> <<>>, failed |-> FALSE]

NoResp == [op |-> "none"]

Init ==
    /\ JOBS = [j \in {} |-> None]
    /\ issued = {}
    /\ pc = [j \in JobIds |-> "none"]
    /\ gen = [j \in JobIds |-> [k \in Calls |-> NoTask]]
    /\ files = [p \in {} |-> <<>>]
    /\ writes = [j \in JobIds |-> 0]
    /\ resp = NoResp

\* the event-loop thread is inside a synchronous external call
LoopBusy ==
    \E j \in JobIds :
        \/ pc[j] = "tts"
        \/ \E k \in Calls : gen[j][k].st = "running"

---------------------------------------------------------------------------
(* process_job and its generate_with_gemini tasks *)

\* as SetStatus, on a status shared by all the records
SetStatus_Shared(jobs, job_id, status) ==
    [i \in DOMAIN jobs |-> [jobs[i] EXCEPT !.status = status]]

SetStatus(jobs, job_id, status) ==
    [jobs EXCEPT ![job_id].status = status]

SetResult(jobs, job_id, result) ==
    [jobs EXCEPT ![job_id].result = result]

\* as ProcessJobStart, without the assignment of "processing"
ProcessJobStart_NoStatus(job_id) ==
    /\ ~LoopBusy
    /\ pc[job_id] = "scheduled"
    /\ gen' = [gen EXCEPT ![job_id] =
                  [k \in Calls |-> [NoTask EXCEPT !.st = "scheduled"]]]
    /\ pc' = [pc EXCEPT ![job_id] = "gather"]
    /\ resp' = NoResp
    /\ UNCHANGED <<JOBS, issued, files, writes>>

\* as ProcessJobStart, without the create_task of the quiz call: the
\* gather waits for a result that no task produces
ProcessJobStart_NoQuizTask(job_id) ==
    /\ ~LoopBusy
    /\ pc[job_id] = "scheduled"
    /\ JOBS' = SetStatus(JOBS, job_id, "processing")
    /\ gen' = [gen EXCEPT ![job_id] =
                  [k \in Calls |->
                      IF k = "quiz" THEN NoTask
                      ELSE [NoTask EXCEPT !.st = "scheduled"]]]
    /\ pc' = [pc EXCEPT ![job_id] = "gather"]
    /\ resp' = NoResp
    /\ UNCHANGED <<issued, files, writes>>

\* from the first run of the task to its suspension in asyncio.gather
ProcessJobStart(job_id) ==
    /\ ~LoopBusy
    /\ pc[job_id] = "scheduled"
    /\ JOBS' = SetStatus(JOBS, job_id, "processing")
    /\ gen' = [gen EXCEPT ![job_id] =
                  [k \in Calls |-> [NoTask EXCEPT !.st = "scheduled"]]]
    /\ pc' = [pc EXCEPT ![job_id] = "gather"]
    /\ resp' = NoResp
    /\ UNCHANGED <<issued, files, writes>>

\* the task of one call runs and enters model.generate_content(prompt);
\* the event loop starts the tasks of a job in the order of their creation
GenerateCall(job_id, k) ==
    /\ ~LoopBusy
    /\ gen[job_id][k].st = "scheduled"
    /\ \A c \in CreatedBefore(k) : gen[job_id][c].st = "returned"
    /\ gen' = [gen EXCEPT ![job_id][k].st = "running"]
    /\ resp' = NoResp
    /\ UNCHANGED <<JOBS, issued, pc, files, writes>>

\* generate_content returns and the task returns response.text
GenerateReturn(job_id, k, text) ==
    /\ gen[job_id][k].st = "running"
    /\ gen' = [gen EXCEPT ![job_id][k] =
                  [st |-> "returned", text |-> text, failed |-> FALSE]]
    /\ resp' = NoResp
    /\ UNCHANGED <<JOBS, issued, pc, files, writes>>

\* as GenerateRaise, without the try/except: the exception leaves the task
\* and the gather, and the except branch of process_job stores it
GenerateRaise_Propagate(job_id, k) ==
    /\ gen[job_id][k].st = "running"
    /\ JOBS' = [JOBS EXCEPT ![job_id] =
                   [status |-> "error", result |-> [error |-> "quota"]]]
    /\ writes' = [writes EXCEPT ![job_id] = @ + 1]
    /\ pc' = [pc EXCEPT ![job_id] = "finished"]
    /\ gen' = [gen EXCEPT ![job_id] = [c \in Calls |-> NoTask]]
    /\ resp' = NoResp
    /\ UNCHANGED <<issued, files>>

\* generate_content raises and the task returns the sentinel
GenerateRaise(job_id, k) ==
    /\ gen[job_id][k].st = "running"
    /\ gen' = [gen EXCEPT ![job_id][k] =
                  [st |-> "returned", text |-> Sentinel, failed |-> TRUE]]
    /\ resp' = NoResp
    /\ UNCHANGED <<JOBS, issued, pc, files, writes>>

generate_with_gemini(job_id, k) ==
    \/ GenerateCall(job_id, k)
    \/ \E text \in ServiceTexts : GenerateReturn(job_id, k, text)
    \/ GenerateRaise(job_id, k)

FallbackGraph ==
    [nodes |-> <<[id |-> "n1", label |-> "Key concepts"]>>, edges |-> <<>>]

NormalizeGraph(graph_json) ==
    IF ~Truthy(graph_json, "nodes") THEN FallbackGraph ELSE graph_json

\* as NormalizeQuiz, with one test for the two fields: both are emptied
\* when one of them is missing
NormalizeQuiz_OneTest(quiz_json) ==
    IF ~Truthy(quiz_json, "mcq") \/ ~Truthy(quiz_json, "flashcards")
    THEN DictSet(DictSet(quiz_json, "mcq", <<>>), "flashcards", <<>>)
    ELSE quiz_json

NormalizeQuiz(quiz_json) ==
    LET q1 == IF ~Truthy(quiz_json, "mcq")
              THEN DictSet(quiz_json, "mcq", <<>>)
              ELSE quiz_json
    IN  IF ~Truthy(q1, "flashcards")
        THEN DictSet(q1, "flashcards", <<>>)
        ELSE q1

\* as ProcessJobResume, resuming at the first result instead of at the
\* last one (a race in place of the join)
ProcessJobResume_FirstResult(job_id) ==
    /\ ~LoopBusy
    /\ pc[job_id] = "gather"
    /\ \E k \in Calls : gen[job_id][k].st = "returned"
    /\ pc' = [pc EXCEPT ![job_id] = "tts"]
    /\ resp' = NoResp
    /\ UNCHANGED <<JOBS, issued, gen, files, writes>>

\* the gather has all three results: the task resumes, normalizes them
\* and enters save_tts_mp3(summary_res, job_id)
ProcessJobResume(job_id) ==
    /\ ~LoopBusy
    /\ pc[job_id] = "gather"
    /\ \A k \in Calls : gen[job_id][k].st = "returned"
    /\ pc' = [pc EXCEPT ![job_id] = "tts"]
    /\ resp' = NoResp
    /\ UNCHANGED <<JOBS, issued, gen, files, writes>>

DoneResult(job_id, audio_path) ==
    [summary |-> gen[job_id]["summary"].text,
     graph |-> NormalizeGraph(extract_json(gen[job_id]["graph"].text)),
     quiz |-> NormalizeQuiz(extract_json(gen[job_id]["quiz"].text)),
     audio_path |-> audio_path]

\* as CommitDone, without the assignment of the result
CommitDone_StatusOnly(jobs, job_id, result) ==
    SetStatus(jobs, job_id, "done")

\* the two assignments of the try branch
CommitDone(jobs, job_id, result) ==
    SetResult(SetStatus(jobs, job_id, "done"), job_id, result)

\* the two assignments of the except branch
CommitError(jobs, job_id, message) ==
    SetResult(SetStatus(jobs, job_id, "error"), job_id, [error |-> message])

\* save_tts_mp3 returns: the try branch stores the result
ProcessJobDone(job_id) ==
    /\ pc[job_id] = "tts"
    /\ LET saved == save_tts_mp3(files, gen[job_id]["summary"].text,
                                 IdStr(job_id))
       IN  /\ files' = saved.files
           /\ JOBS' = CommitDone(JOBS, job_id, DoneResult(job_id, saved.path))
    /\ writes' = [writes EXCEPT ![job_id] = @ + 1]
    /\ pc' = [pc EXCEPT ![job_id] = "finished"]
    /\ gen' = [gen EXCEPT ![job_id] = [k \in Calls |-> NoTask]]
    /\ resp' = NoResp
    /\ UNCHANGED issued

\* save_tts_mp3 raises, in gTTS(...) or in tts.save(path): the except
\* branch stores str(e).  tts.save opens the file before it fetches the
\* audio, so the file may or may not have been created (empty) by then.
\* No other statement of the try block raises: generate_with_gemini and
\* extract_json catch every Exception.
ProcessJobExcept(job_id, message, created) ==
    /\ pc[job_id] = "tts"
    /\ LET path == PathJoin(GENERATED_DIR, IdStr(job_id) \o ".mp3")
       IN  files' = IF created THEN DictSet(files, path, <<>>) ELSE files
    /\ JOBS' = CommitError(JOBS, job_id, message)
    /\ writes' = [writes EXCEPT ![job_id] = @ + 1]
    /\ pc' = [pc EXCEPT ![job_id] = "finished"]
    /\ gen' = [gen EXCEPT ![job_id] = [k \in Calls |-> NoTask]]
    /\ resp' = NoResp
    /\ UNCHANGED issued

process_job(job_id) ==
    \/ ProcessJobStart(job_id)
    \/ ProcessJobResume(job_id)
    \/ ProcessJobDone(job_id)
    \/ \E message \in ErrorMessages, created \in BOOLEAN :
           ProcessJobExcept(job_id, message, created)

---------------------------------------------------------------------------
(* POST /process *)

\* str(uuid.uuid4()): an identifier not handed out before
uuid4 == JobIds \ issued

\* as process_endpoint, rebinding JOBS to a new dict with the one record
process_endpoint_Rebind(content) ==
    /\ ~LoopBusy
    /\ IF strip(content) = <<>>
       THEN /\ resp' = [op |-> "process", code |-> 400,
                        detail |-> "Content is required"]
            /\ UNCHANGED <<JOBS, issued, pc, gen, files, writes>>
       ELSE \E job_id \in uuid4 :
            /\ JOBS' = [j \in {job_id} |->
                           [status |-> "queued", result |-> None]]
            /\ pc' = [pc EXCEPT ![job_id] = "scheduled"]
            /\ issued' = issued \cup {job_id}
            /\ resp' = [op |-> "process", code |-> 200, job_id |-> job_id]
            /\ UNCHANGED <<gen, files, writes>>

\* as process_endpoint, testing "not content" without the strip()
process_endpoint_NoStrip(content) ==
    /\ ~LoopBusy
    /\ IF content = <<>>
       THEN /\ resp' = [op |-> "process", code |-> 400,
                        detail |-> "Content is required"]
            /\ UNCHANGED <<JOBS, issued, pc, gen, files, writes>>
       ELSE \E job_id \in uuid4 :
            /\ JOBS' = DictSet(JOBS, job_id,
                               [status |-> "queued", result |-> None])
            /\ pc' = [pc EXCEPT ![job_id] = "scheduled"]
            /\ issued' = issued \cup {job_id}
            /\ resp' = [op |-> "process", code |-> 200, job_id |-> job_id]
            /\ UNCHANGED <<gen, files, writes>>

\* as process_endpoint, awaiting process_job instead of creating its task:
\* the job has run to its end when the response is produced
process_endpoint_Await(content) ==
    /\ ~LoopBusy
    /\ IF strip(content) = <<>>
       THEN /\ resp' = [op |-> "process", code |-> 400,
                        detail |-> "Content is required"]
            /\ UNCHANGED <<JOBS, issued, pc, gen, files, writes>>
       ELSE \E job_id \in uuid4 :
            LET path == PathJoin(GENERATED_DIR, IdStr(job_id) \o ".mp3")
                queued == DictSet(JOBS, job_id,
                                  [status |-> "queued", result |-> None])
                result == [summary |-> Sentinel,
                           graph |-> FallbackGraph,
                           quiz |-> NormalizeQuiz(EmptyDict),
                           audio_path |-> path]
            IN  /\ JOBS' = CommitDone(queued, job_id, result)
                /\ files' = DictSet(files, path, TtsBytes(Sentinel))
                /\ writes' = [writes EXCEPT ![job_id] = @ + 1]
                /\ pc' = [pc EXCEPT ![job_id] = "finished"]
                /\ issued' = issued \cup {job_id}
                /\ resp' = [op |-> "process", code |-> 200,
                            job_id |-> job_id]
                /\ UNCHANGED gen

process_endpoint(content) ==
    /\ ~LoopBusy
    /\ IF strip(content) = <<>>
       THEN /\ resp' = [op |-> "process", code |-> 400,
                        detail |-> "Content is required"]
            /\ UNCHANGED <<JOBS, issued, pc, gen, files, writes>>
       ELSE \E job_id \in uuid4 :
            /\ JOBS' = DictSet(JOBS, job_id,
                               [status |-> "queued", result |-> None])
            /\ pc' = [pc EXCEPT ![job_id] = "scheduled"]
            /\ issued' = issued \cup {job_id}
            /\ resp' = [op |-> "process", code |-> 200, job_id |-> job_id]
            /\ UNCHANGED <<gen, files, writes>>

---------------------------------------------------------------------------
(* GET /hub/{job_id} and GET /audio/{filename} *)

\* as HubResponse, treating a record without a result as no record
HubResponse_NoResult(jobs, job_id) ==
    IF job_id \notin DOMAIN jobs \/ jobs[job_id].result = None
    THEN [op |-> "hub", id |-> job_id, code |-> 404,
          detail |-> "Job not found"]
    ELSE LET entry == jobs[job_id]
             res == entry.result
         IN  CASE entry.status = "done" ->
                  [op |-> "hub", id |-> job_id, code |-> 200,
                   status |-> entry.status,
                   result |->
                     [summary |-> res.summary,
                      graph |-> res.graph,
                      quiz |-> res.quiz,
                      audio_url |->
                        IF Truthy(res, "audio_path")
                        THEN "/audio/" \o SplitLast(res.audio_path)
                        ELSE "null"]]
               [] entry.status = "error" ->
                  [op |-> "hub", id |-> job_id, code |-> 200,
                   status |-> entry.status, result |-> entry.result]
               [] OTHER ->
                  [op |-> "hub", id |-> job_id, code |-> 200,
                   status |-> entry.status]

\* as HubResponse, taking split("/")[0] for the file name
HubResponse_FirstPart(jobs, job_id) ==
    IF job_id \notin DOMAIN jobs
    THEN [op |-> "hub", id |-> job_id, code |-> 404,
          detail |-> "Job not found"]
    ELSE LET entry == jobs[job_id]
             res == entry.result
         IN  CASE entry.status = "done" ->
                  [op |-> "hub", id |-> job_id, code |-> 200,
                   status |-> entry.status,
                   result |->
                     [summary |-> res.summary,
                      graph |-> res.graph,
                      quiz |-> res.quiz,
                      audio_url |->
                        IF Truthy(res, "audio_path")
                        THEN "/audio/" \o res.audio_path[1]
                        ELSE "null"]]
               [] entry.status = "error" ->
                  [op |-> "hub", id |-> job_id, code |-> 200,
                   status |-> entry.status, result |-> entry.result]
               [] OTHER ->
                  [op |-> "hub", id |-> job_id, code |-> 200,
                   status |-> entry.status]

HubResponse(jobs, job_id) ==
    IF job_id \notin DOMAIN jobs
    THEN [op |-> "hub", id |-> job_id, code |-> 404,
          detail |-> "Job not found"]
    ELSE LET entry == jobs[job_id]
             res == entry.result
         IN  CASE entry.status = "done" ->
                  [op |-> "hub", id |-> job_id, code |-> 200,
                   status |-> entry.status,
                   result |->
                     [summary |-> res.summary,
                      graph |-> res.graph,
                      quiz |-> res.quiz,
                      audio_url |->
                        IF Truthy(res, "audio_path")
                        THEN "/audio/" \o SplitLast(res.audio_path)
                        ELSE "null"]]
               [] entry.status = "error" ->
                  [op |-> "hub", id |-> job_id, code |-> 200,
                   status |-> entry.status, result |-> entry.result]
               [] OTHER ->
                  [op |-> "hub", id |-> job_id, code |-> 200,
                   status |-> entry.status]

\* as get_hub, rewriting audio_path inside the stored result instead of in
\* a copy
get_hub_InPlace(job_id) ==
    /\ ~LoopBusy
    /\ resp' = HubResponse(JOBS, job_id)
    /\ JOBS' = IF job_id \in DOMAIN JOBS /\ JOBS[job_id].status = "done"
               THEN [JOBS EXCEPT ![job_id].result.audio_path =
                        <<"/audio/" \o SplitLast(@)>>]
               ELSE JOBS
    /\ UNCHANGED <<issued, pc, gen, files, writes>>

get_hub(job_id) ==
    /\ ~LoopBusy
    /\ resp' = HubResponse(JOBS, job_id)
    /\ UNCHANGED <<JOBS, issued, pc, gen, files, writes>>

\* as get_audio, looking the file up in the working directory instead of
\* GENERATED_DIR
get_audio_WorkDir(filename) ==
    /\ ~LoopBusy
    /\ LET path == PathJoin(".", filename)
       IN  resp' = IF path \notin DOMAIN files
                   THEN [op |-> "audio", filename |-> filename, code |-> 404,
                         detail |-> "Audio not found"]
                   ELSE [op |-> "audio", filename |-> filename, code |-> 200,
                         body |-> files[path]]
    /\ UNCHANGED <<JOBS, issued, pc, gen, files, writes>>

get_audio(filename) ==
    /\ ~LoopBusy
    /\ LET path == PathJoin(GENERATED_DIR, filename)
       IN  resp' = IF path \notin DOMAIN files
                   THEN [op |-> "audio", filename |-> filename, code |-> 404,
                         detail |-> "Audio not found"]
                   ELSE [op |-> "audio", filename |-> filename, code |-> 200,
                         body |-> files[path]]
    /\ UNCHANGED <<JOBS, issued, pc, gen, files, writes>>

---------------------------------------------------------------------------

Next ==
    \/ \E content \in Contents : process_endpoint(content)
    \/ \E job_id \in JobIds : process_job(job_id)
    \/ \E job_id \in JobIds, k \in Calls : generate_with_gemini(job_id, k)
    \/ \E job_id \in AnyIds : get_hub(job_id)
    \/ \E job_id \in AnyIds : get_audio(IdStr(job_id) \o ".mp3")

Spec == Init /\ [][Next]_vars

\* a step of some task: of a process_job or of a generation call
TaskStep ==
    \/ \E job_id \in JobIds : process_job(job_id)
    \/ \E job_id \in JobIds, k \in Calls : generate_with_gemini(job_id, k)

\* The event loop keeps running the tasks that are ready, and an external
\* call that has been entered returns or raises: as long as some task can
\* take a step, one is taken.
Fairness == WF_vars(TaskStep)

\* The steps that create and run jobs, with the number of jobs capped at
\* MaxLiveJobs.
LiveNext ==
    \/ \E content \in Contents :
        process_endpoint(content) /\ Cardinality(issued') <= MaxLiveJobs
    \/ TaskStep

SpecLive == Init /\ [][LiveNext]_vars /\ Fairness

\* The orchestration of one job whose graph and quiz calls can return any
\* text of up to MaxTextLen tokens.
TextJob == 1

SeqsUpTo(S, n) == UNION {[1 .. m -> S] : m \in 0 .. n}

GraphTokens == {"w", "{", "}", "nodes:[n]", "nodes:[]", "edges:[e]"}
QuizTokens == {"w", "{", "}", "mcq:[q]", "mcq:null", "flashcards:[f]"}

GraphTexts == SeqsUpTo(GraphTokens, MaxTextLen)
QuizTexts == SeqsUpTo(QuizTokens, MaxTextLen)

\* response.text for the prompt of call k; the quiz text varies in the runs
\* in which the graph text is plain prose
TextsFor(k) ==
    CASE k = "summary" -> {<<"w">>}
      [] k = "graph" -> GraphTexts
      [] OTHER -> IF gen[TextJob]["graph"].text = <<"w">>
                  THEN QuizTexts
                  ELSE ServiceTexts

TextNext ==
    \/ \E content \in Contents :
        process_endpoint(content) /\ issued' = {TextJob}
    \/ process_job(TextJob)
    \/ \E k \in Calls : GenerateCall(TextJob, k)
    \/ \E k \in Calls :
        /\ gen[TextJob][k].st = "running"
        /\ \E text \in TextsFor(k) : GenerateReturn(TextJob, k, text)
    \/ \E k \in Calls : GenerateRaise(TextJob, k)

SpecTexts == Init /\ [][TextNext]_vars

---------------------------------------------------------------------------
(* Properties *)

Terminal == {"done", "error"}

ForwardMoves ==
    {<<"queued", "processing">>, <<"processing", "done">>,
     <<"processing", "error">>}

\* the paths, names and URL of the audio file of a job
AudioPath(job_id) == <<"generated", "/", ToString(job_id) \o ".mp3">>
AudioUrl(job_id) == "/audio/" \o ToString(job_id) \o ".mp3"

\* C1: every step keeps each job record, changes its status only along
\* queued -> processing -> done or error (never backwards, never from
\* queued straight to a terminal status), and changes neither the status
\* nor the result of a job that is done or error.
C1_StatusForward ==
    [][\A j \in DOMAIN JOBS :
          /\ j \in DOMAIN JOBS'
          /\ JOBS'[j].status # JOBS[j].status =>
                 <<JOBS[j].status, JOBS'[j].status>> \in ForwardMoves
          /\ JOBS[j].status \in Terminal => JOBS'[j] = JOBS[j]]_vars

\* one job has ended in done and another in error
C1_Witness ==
    \E j, i \in DOMAIN JOBS :
        JOBS[j].status = "done" /\ JOBS[i].status = "error"

\* C2: whenever a request can be served (the event loop is not inside a
\* blocking call), every job has a result exactly when its status is done
\* or error, and its result has been assigned once if it has one and never
\* otherwise.
C2_ResultIffTerminal ==
    ~LoopBusy =>
        \A j \in DOMAIN JOBS :
            /\ JOBS[j].result # None <=> JOBS[j].status \in Terminal
            /\ writes[j] = (IF JOBS[j].result # None THEN 1 ELSE 0)

\* a poll has just returned a done job with its result while another job
\* is still processing without one
C2_Witness ==
    /\ resp.op = "hub" /\ resp.code = 200 /\ resp.status = "done"
    /\ writes[resp.id] = 1
    /\ \E j \in DOMAIN JOBS :
           JOBS[j].status = "processing" /\ JOBS[j].result = None

\* C3: in the state a non-blank POST /process leaves behind, GET /hub can
\* be served for the returned id and answers queued or processing, not
\* done.
C3_PollRightAfterSubmit ==
    [][(resp'.op = "process" /\ resp'.code = 200) =>
          /\ ~LoopBusy'
          /\ HubResponse(JOBS', resp'.job_id).code = 200
          /\ HubResponse(JOBS', resp'.job_id).status
                 \in {"queued", "processing"}]_vars

\* a poll answered queued: it was served after the submission and before
\* the job's task ran
C3_Witness ==
    resp.op = "hub" /\ resp.code = 200 /\ resp.status = "queued"

\* C4: while a generation call has been entered and has not returned, the
\* job it belongs to is processing, every GET /hub and every POST /process
\* can be served, and every other job can take its next step.
C4_NothingBlocked ==
    \A j \in JobIds, k \in Calls :
        gen[j][k].st = "running" =>
            /\ JOBS[j].status = "processing"
            /\ \A id \in AnyIds : ENABLED get_hub(id)
            /\ \A c \in Contents :
                   (strip(c) = <<>> \/ uuid4 # {}) =>
                       ENABLED process_endpoint(c)
            /\ \A i \in JobIds \ {j} :
                   /\ pc[i] = "scheduled" => ENABLED ProcessJobStart(i)
                   /\ (\E k2 \in Calls : gen[i][k2].st = "scheduled") =>
                          \E k2 \in Calls : ENABLED GenerateCall(i, k2)
                   /\ (/\ pc[i] = "gather"
                       /\ \A k2 \in Calls : gen[i][k2].st = "returned") =>
                          ENABLED ProcessJobResume(i)

\* blank or whitespace-only content
IsBlank(content) == \A i \in 1 .. Len(content) : content[i] = " "

\* C5: a POST /process with non-blank content answers 200 with a job id
\* that was in neither the registry nor the ids returned before, adds
\* exactly that record, queued and without result, changes no other
\* record, and leaves the job's task created but not started.
C5_SubmitAddsOneQueued ==
    [][/\ (resp'.op = "process" /\ resp'.code # 200) =>
             \A c \in Contents : ~IsBlank(c) => ~process_endpoint(c)
       /\ (resp'.op = "process" /\ resp'.code = 200) =>
             LET j == resp'.job_id
             IN  /\ j \notin issued
                 /\ j \notin DOMAIN JOBS
                 /\ issued' = issued \cup {j}
                 /\ DOMAIN JOBS' = DOMAIN JOBS \cup {j}
                 /\ JOBS'[j] = [status |-> "queued", result |-> None]
                 /\ \A i \in DOMAIN JOBS : JOBS'[i] = JOBS[i]
                 /\ pc'[j] = "scheduled"
                 /\ \A k \in Calls : gen'[j][k].st = "none"
                 /\ writes'[j] = 0
                 /\ files' = files]_vars

\* a second job has just been submitted while the first one is done
C5_Witness ==
    /\ resp.op = "process" /\ resp.code = 200
    /\ JOBS[resp.job_id].status = "queued"
    /\ \E i \in DOMAIN JOBS : i # resp.job_id /\ JOBS[i].status = "done"

\* C6: a POST /process with blank or whitespace-only content answers 400
\* and changes neither the registry nor any task nor any file.
C6_BlankRejected ==
    [][/\ (resp'.op = "process" /\ resp'.code = 400) =>
             UNCHANGED <<JOBS, issued, pc, gen, files, writes>>
       /\ (resp'.op = "process" /\ resp'.code # 400) =>
             \A c \in Contents : IsBlank(c) => ~process_endpoint(c)]_vars

\* a blank submission has just been rejected while a job is registered
C6_Witness ==
    resp.op = "process" /\ resp.code = 400 /\ DOMAIN JOBS # {}

\* C7: in every state GET /hub on an id answers 404 exactly when no
\* POST /process has returned that id, the ids returned only grow, and
\* every GET /hub served answers accordingly.
C7_NotFoundIffNeverIssued ==
    [][/\ issued \subseteq issued'
       /\ \A id \in AnyIds :
             /\ HubResponse(JOBS, id).code = 404 <=> id \notin issued
             /\ HubResponse(JOBS', id).code = 404 <=> id \notin issued'
       /\ resp'.op = "hub" =>
             (resp'.code = 404 <=> resp'.id \notin issued)]_vars

\* a poll on an id not yet issued was answered 404 while another job,
\* long finished, is still registered
C7_Witness ==
    /\ resp.op = "hub" /\ resp.code = 404 /\ resp.id \in JobIds
    /\ \E j \in issued : JOBS[j].status \in Terminal

\* C8: GET /hub on a registered job answers 200 with the job's status;
\* for done with the stored summary, graph and quiz and the audio_url
\* /audio/{job_id}.mp3, the base name of the stored path; for error with
\* the stored {error} payload; for queued and processing without result.
C8_PollResponse ==
    [][\A j \in DOMAIN JOBS :
          (resp'.op = "hub" /\ resp'.id = j) =>
              /\ resp'.code = 200
              /\ resp'.status = JOBS[j].status
              /\ JOBS[j].status = "done" =>
                    /\ JOBS[j].result.audio_path = AudioPath(j)
                    /\ resp'.result =
                          [summary |-> JOBS[j].result.summary,
                           graph |-> JOBS[j].result.graph,
                           quiz |-> JOBS[j].result.quiz,
                           audio_url |-> AudioUrl(j)]
              /\ JOBS[j].status = "error" =>
                    /\ DOMAIN JOBS[j].result = {"error"}
                    /\ resp'.result = JOBS[j].result
              /\ JOBS[j].status \in {"queued", "processing"} =>
                    "result" \notin DOMAIN resp']_vars

\* a poll has just answered done with the audio_url of its job
C8_Witness ==
    /\ resp.op = "hub" /\ resp.code = 200 /\ resp.status = "done"
    /\ resp.result.audio_url = AudioUrl(resp.id)

\* C9: a generation call that raises returns the sentinel and changes
\* neither the job record nor the job's task nor the other calls, which
\* can still be run; a job becomes error only out of the synthesis; and
\* when the synthesis returns, the job becomes done with the summary the
\* summary call returned.
C9_GenerationFailureMasked ==
    /\ [](\A j \in JobIds, k \in Calls :
             (~LoopBusy /\ gen[j][k].failed) =>
                 /\ JOBS[j].status = "processing"
                 /\ gen[j][k].text = Sentinel
                 /\ (\E k2 \in Calls : gen[j][k2].st = "scheduled") =>
                        \E k2 \in Calls : ENABLED GenerateCall(j, k2)
                 /\ (\A k2 \in Calls : gen[j][k2].st = "returned") =>
                        ENABLED ProcessJobResume(j))
    /\ [][\A j \in JobIds :
             /\ \A k \in Calls :
                   GenerateRaise(j, k) =>
                       /\ gen'[j][k] = [st |-> "returned", text |-> Sentinel,
                                        failed |-> TRUE]
                       /\ \A k2 \in Calls \ {k} : gen'[j][k2] = gen[j][k2]
                       /\ JOBS' = JOBS
                       /\ pc' = pc
             /\ (/\ j \in DOMAIN JOBS
                 /\ JOBS[j].status # "error"
                 /\ JOBS'[j].status = "error") => pc[j] = "tts"
             /\ ProcessJobDone(j) =>
                   /\ JOBS'[j].status = "done"
                   /\ JOBS'[j].result.summary = gen[j]["summary"].text]_vars

\* a job is done although its summary and quiz calls failed and its graph
\* call did not
C9_Witness ==
    \E j \in DOMAIN JOBS :
        /\ JOBS[j].status = "done"
        /\ JOBS[j].result.summary = Sentinel
        /\ JOBS[j].result.graph # FallbackGraph
        /\ JOBS[j].result.quiz.mcq = <<>>

\* C10: when the synthesis raises, the job becomes error; and whenever a
\* job becomes error its result is exactly {error: message} with a
\* non-empty message, without summary, graph or quiz.
C10_SynthesisFailureStored ==
    [][\A j \in DOMAIN JOBS :
          /\ (\E m \in ErrorMessages, c \in BOOLEAN :
                  ProcessJobExcept(j, m, c)) => JOBS'[j].status = "error"
          /\ (JOBS[j].status # "error" /\ JOBS'[j].status = "error") =>
                /\ DOMAIN JOBS'[j].result = {"error"}
                /\ JOBS'[j].result.error # ""]_vars

\* C11: with a fair event loop and external calls that return or raise,
\* every job whose task has been created ends with its task finished and
\* its status done or error.
C11_JobTerminates ==
    \A j \in JobIds :
        (pc[j] # "none") ~>
            (pc[j] = "finished" /\ JOBS[j].status \in Terminal)

\* every job that was created has run to its end, at least one of them
C11_Witness ==
    /\ \E j \in DOMAIN JOBS : pc[j] = "finished"
    /\ \A j \in DOMAIN JOBS :
          pc[j] = "finished" /\ JOBS[j].status \in Terminal

\* a state in which the event loop can serve a request
Observable == ~LoopBusy

\* C12: in every state a request can observe, the file generated/{job_id}.mp3
\* exists if and only if the job's status is done.
C12_FileIffDone ==
    Observable =>
        \A j \in DOMAIN JOBS :
            (AudioPath(j) \in DOMAIN files) <=> (JOBS[j].status = "done")

\* C13: GET /audio/{filename} answers 404 when generated/{filename} does
\* not exist, and for the filename in the audio_url that GET /hub gives for
\* a done job it answers 200 with the bytes synthesised from that job's
\* summary.
C13_FetchAudio ==
    [][resp'.op = "audio" =>
          LET path == PathJoin(GENERATED_DIR, resp'.filename)
          IN  /\ path \notin DOMAIN files => resp'.code = 404
              /\ \A j \in DOMAIN JOBS :
                    (/\ JOBS[j].status = "done"
                     /\ HubResponse(JOBS, j).result.audio_url
                            = "/audio/" \o resp'.filename)
                    => /\ resp'.code = 200
                       /\ resp'.body = TtsBytes(JOBS[j].result.summary)]_vars

\* the audio of a done job has been fetched under the name in its audio_url
C13_Witness ==
    /\ resp.op = "audio"
    /\ resp.code = 200
    /\ \E j \in DOMAIN JOBS :
          /\ JOBS[j].status = "done"
          /\ HubResponse(JOBS, j).result.audio_url = "/audio/" \o resp.filename
          /\ resp.body = TtsBytes(JOBS[j].result.summary)
          /\ resp.body # <<>>

\* C14: the three generation calls of a job are in flight together: when
\* one of them has returned, each of the other two has entered
\* generate_content (it is running or has returned as well).
C14_CallsInFlightTogether ==
    \A j \in JobIds :
        (\E k \in Calls : gen[j][k].st = "returned") =>
            \A k \in Calls : gen[j][k].st \in {"running", "returned"}

\* C15: a job is inside the synthesis only when its three generation calls
\* have returned, and a job becomes done only in the step in which its
\* synthesis returns, with the file written and its path in the result.
C15_SynthesisAfterJoin ==
    [][\A j \in JobIds :
          /\ pc'[j] = "tts" => \A k \in Calls : gen'[j][k].st = "returned"
          /\ (j \in DOMAIN JOBS /\ JOBS[j].status # "done"
                 /\ JOBS'[j].status = "done")
              => /\ pc[j] = "tts"
                 /\ \A k \in Calls : gen[j][k].st = "returned"
                 /\ AudioPath(j) \in DOMAIN files'
                 /\ JOBS'[j].result.audio_path = AudioPath(j)]_vars

\* one job is inside the synthesis with its three results, another is done
C15_Witness ==
    \E j, i \in DOMAIN JOBS :
        /\ pc[j] = "tts"
        /\ \A k \in Calls : gen[j][k].st = "returned"
        /\ JOBS[i].status = "done"
        /\ AudioPath(i) \in DOMAIN files

\* a step of the orchestration run of job j: of its process_job task or of
\* one of its generation tasks
RunStep(j) ==
    /\ pc'[j] # pc[j] \/ gen'[j] # gen[j]
    /\ \/ process_job(j)
       \/ \E k \in Calls : generate_with_gemini(j, k)

\* C16: every step of the orchestration run of job j leaves the set of
\* records and the status and result of every other job unchanged.
C16_OwnRecordOnly ==
    [][\A j \in JobIds :
          RunStep(j) =>
              /\ DOMAIN JOBS' = DOMAIN JOBS
              /\ \A i \in DOMAIN JOBS \ {j} : JOBS'[i] = JOBS[i]]_vars

\* two runs are interleaved: one job has reached its end while another is
\* between two of its generation calls
C16_Witness ==
    \E j, i \in DOMAIN JOBS :
        /\ j # i
        /\ JOBS[j].status \in Terminal
        /\ pc[j] = "finished"
        /\ JOBS[i].status = "processing"
        /\ gen[i]["summary"].st = "returned"
        /\ gen[i]["graph"].st = "scheduled"

\* the mappings extracted from the graph and quiz texts of a job
GraphJson(j) == extract_json(gen[j]["graph"].text)
QuizJson(j) == extract_json(gen[j]["quiz"].text)

\* job j becomes done in this step
BecomesDone(j) ==
    /\ j \in DOMAIN JOBS
    /\ JOBS[j].status # "done"
    /\ JOBS'[j].status = "done"

\* C17 as stated: a graph mapping without nodes, or with empty nodes, is
\* committed as the fallback graph; a quiz field that is missing is
\* committed as the empty sequence and a quiz field that is present is
\* committed as it is, each field on its own.
C17_PresentFieldKept ==
    [][\A j \in JobIds : BecomesDone(j) =>
          LET g == GraphJson(j)
              q == QuizJson(j)
              res == JOBS'[j].result
          IN  /\ ("nodes" \notin DOMAIN g \/ g.nodes = <<>>) =>
                    res.graph =
                      [nodes |-> <<[id |-> "n1", label |-> "Key concepts"]>>,
                       edges |-> <<>>]
              /\ \A f \in {"mcq", "flashcards"} :
                    res.quiz[f] = IF f \in DOMAIN q THEN q[f] ELSE <<>>]_vars

\* C17, amended: as above, but a quiz field is committed as the empty
\* sequence when it is missing or its value is false for Python (null, an
\* empty sequence), and as it is otherwise.
C17_Normalization ==
    [][\A j \in JobIds : BecomesDone(j) =>
          LET g == GraphJson(j)
              q == QuizJson(j)
              res == JOBS'[j].result
          IN  /\ ("nodes" \notin DOMAIN g \/ g.nodes = <<>>) =>
                    res.graph =
                      [nodes |-> <<[id |-> "n1", label |-> "Key concepts"]>>,
                       edges |-> <<>>]
              /\ \A f \in {"mcq", "flashcards"} :
                    res.quiz[f] =
                      IF f \in DOMAIN q /\ q[f] # <<>> /\ q[f] # JsonNull
                      THEN q[f]
                      ELSE <<>>]_vars

\* a job is done whose graph text had no usable nodes and whose quiz text
\* had flashcards and no mcq: fallback graph, empty mcq, flashcards kept
C17_Witness ==
    \E j \in DOMAIN JOBS :
        /\ JOBS[j].status = "done"
        /\ JOBS[j].result.graph = FallbackGraph
        /\ JOBS[j].result.quiz.mcq = <<>>
        /\ JOBS[j].result.quiz.flashcards # <<>>

\* C18: the result of every done job has exactly the fields summary,
\* graph, quiz and audio_path; its graph has a non-empty nodes sequence and
\* an edges sequence, and its quiz has an mcq and a flashcards sequence.
C18_DoneResultShape ==
    \A j \in DOMAIN JOBS :
        JOBS[j].status = "done" =>
            LET res == JOBS[j].result
            IN  /\ DOMAIN res = {"summary", "graph", "quiz", "audio_path"}
                /\ "nodes" \in DOMAIN res.graph
                /\ res.graph.nodes # <<>>
                /\ "edges" \in DOMAIN res.graph
                /\ {"mcq", "flashcards"} \subseteq DOMAIN res.quiz

\* C19: for every text returned to a job, if some span of the text is a
\* well-formed JSON object then extract_json gives that object decoded, and
\* if the text has no {...} span or its span is malformed then extract_json
\* gives the empty mapping.
C19_ExtractDecodes ==
    \A j \in JobIds, k \in Calls :
        gen[j][k].st = "returned" =>
            LET text == gen[j][k].text
            IN  /\ \A a, b \in 1 .. Len(text) :
                      (a < b /\ JsonValid(SubSeq(text, a, b))) =>
                          extract_json(text) = JsonLoads(SubSeq(text, a, b))
                /\ (BraceSpan(text) = <<>> \/ ~JsonValid(BraceSpan(text))) =>
                          extract_json(text) = EmptyDict

\* C20: serving GET /hub/{job_id} or GET /audio/{filename}, for any
\* argument and in any state, leaves every job record (status and result)
\* and every audio file as they were, and starts or moves no task.
C20_ReadsChangeNothing ==
    [][resp'.op \in {"hub", "audio"} =>
          /\ JOBS' = JOBS
          /\ files' = files
          /\ UNCHANGED <<issued, pc, gen, writes>>]_vars

\* a done job has been polled and its stored audio_path is still the path
\* of its file
C20_Witness ==
    /\ resp.op = "hub"
    /\ resp.code = 200
    /\ resp.id \in DOMAIN JOBS
    /\ JOBS[resp.id].status = "done"
    /\ JOBS[resp.id].result.audio_path = AudioPath(resp.id)
    /\ AudioPath(resp.id) \in DOMAIN files
    /\ resp.result.audio_url = AudioUrl(resp.id)

====
